---- MODULE Spec2Model ----
(***************************************************************************)
(* A model of the graph / poset / pattern-graph engine of                  *)
(* pythonmodules/intervalgraph.py and of the network-file codec of         *)
(* pythonmodules/fileparsers.py.                                           *)
(*                                                                         *)
(* The module holds several specifications, one per component:            *)
(*   SpecGraph     Graph: add_vertex, add_edge, remove_edge,               *)
(*                 transitive_closure, transitive_reduction                *)
(*   SpecPattern   Poset construction, Poset.maximal, PosetToPatternGraph  *)
(*   SpecInterval  IntervalGraph                                           *)
(*   SpecCodec     getGraphFromNetworkFile / createNetworkFile,            *)
(*                 getGraphFromNetworkSpec /                               *)
(*                 createEssentialNetworkSpecFromGraph                     *)
(*   SpecInputs    SpecInterval and SpecCodec side by side                 *)
(*   SpecLabelled  Graph with labels: add_vertex, add_edge, remove_edge,   *)
(*                 transpose, get_vertex_from_label                        *)
(*   SpecSort      sort_by_list                                            *)
(* Each specification leaves the variables of the other components at      *)
(* their idle values.                                                      *)
(***************************************************************************)
EXTENDS Integers, Sequences, FiniteSets, TLC

VARIABLES
  graph,            \* SpecGraph: the Graph object under construction
  result,           \* SpecGraph: what the last query call returned
  pgraph,           \* SpecPattern: the digraph handed to Poset(...)
  poset,            \* SpecPattern: the Poset object (after construction)
  recursion_stack,  \* SpecPattern: PosetToPatternGraph's work stack
  pattern_graph,    \* SpecPattern: PosetToPatternGraph's output graph
  clique,           \* SpecPattern: the antichain popped last
  todo,             \* SpecPattern: elements of clique the for loop has not visited
  ppc,              \* SpecPattern: position in Poset(...) / PosetToPatternGraph
  maximal_call,     \* SpecPattern: argument and value of the last maximal(subset)
  popped,           \* SpecPattern: the antichains popped so far, in order
  events,           \* SpecInterval: the event list handed to IntervalGraph
  ivres,            \* SpecInterval: what IntervalGraph returned
  text,             \* SpecCodec: the network specification text (a list of characters)
  cres,             \* SpecCodec: outcome of the last codec pipeline run on text
  sort_args,        \* SpecSort: the arguments X, Y, reverse of sort_by_list
  newlists          \* SpecSort: what sort_by_list returned

vars == <<graph, result, pgraph, poset, recursion_stack, pattern_graph, clique,
          todo, ppc, maximal_call, popped, events, ivres, text, cres, sort_args,
          newlists>>

graphVars   == <<graph, result>>
patternVars == <<pgraph, poset, recursion_stack, pattern_graph, clique, todo, ppc,
                 maximal_call, popped>>
intervalVars == <<events, ivres>>
codecVars   == <<text, cres>>
sortVars    == <<sort_args, newlists>>

(***************************************************************************)
(* Bounds of the model.                                                    *)
(***************************************************************************)
MaxVertex == 3      \* SpecGraph: vertex identifiers are 1..MaxVertex
MaxEdges == 3       \* SpecGraph: add_edge is offered while the graph has fewer edges
MaxPosetSize == 3   \* SpecPattern: posets have the elements 1..n, n <= MaxPosetSize
MaxEvents == 3      \* SpecInterval: event lists have at most MaxEvents events
MaxTime == 2        \* SpecInterval: interval end points are 0..MaxTime

None == "None"      \* Python's None; also the idle value of a variable

(***************************************************************************)
(* Generic helpers.                                                        *)
(***************************************************************************)
\* d[k] = val on a dict d (a function): the key is added or overwritten.
DictSet(d, k, val) == [x \in (DOMAIN d) \cup {k} |-> IF x = k THEN val ELSE d[x]]

\* d.pop(k, None) on a dict d.
DictPop(d, k) == [x \in (DOMAIN d) \ {k} |-> d[x]]

\* 1..n as the sequence <<1, ..., n>>.
Range1(n) == [i \in 1..n |-> i]

\* All orders in which a set can be iterated.
Orders(S) == { s \in [1..Cardinality(S) -> S] : \A i, j \in 1..Cardinality(S) : i # j => s[i] # s[j] }

(***************************************************************************)
(* class Graph                                                             *)
(***************************************************************************)
NewGraph ==
  [ vertices_ |-> {}, adjacency_lists_ |-> <<>>, vertex_labels_ |-> <<>>,
    edge_labels_ |-> <<>> ]

add_vertex(G, v, label) ==
  IF v \in G.vertices_ THEN G
  ELSE [ vertices_        |-> G.vertices_ \cup {v},
         adjacency_lists_ |-> DictSet(G.adjacency_lists_, v, {}),
         vertex_labels_   |-> DictSet(G.vertex_labels_, v, label),
         edge_labels_     |-> DictSet(G.edge_labels_, v, <<>>) ]

\* A plausible slip: the target of the edge is not registered as a vertex.
add_edge_target_unregistered(G, u, v, label) ==
  LET G1 == add_vertex(G, u, "")
  IN  [ G1 EXCEPT !.adjacency_lists_[u] = @ \cup {v},
                  !.edge_labels_[u] = DictSet(@, v, label) ]

add_edge(G, u, v, label) ==
  LET G1 == add_vertex(G, u, "")
      G2 == add_vertex(G1, v, "")
  IN  [ G2 EXCEPT !.adjacency_lists_[u] = @ \cup {v},
                  !.edge_labels_[u] = DictSet(@, v, label) ]

\* remove_edge looks u up in both dicts: a KeyError when u is not a key.
remove_edge_raises(G, u) ==
  u \notin DOMAIN G.adjacency_lists_ \/ u \notin DOMAIN G.edge_labels_

\* remove_edge where it does not raise.
remove_edge(G, u, v) ==
  [ G EXCEPT !.adjacency_lists_[u] = @ \ {v},
             !.edge_labels_[u] = DictPop(@, v) ]

vertex_label(G, v) == G.vertex_labels_[v]

\* A plausible slip: the first vertex that carries the label is returned even
\* when several carry it.
get_vertex_from_label_first(G, label) ==
  LET vs == { v \in G.vertices_ : vertex_label(G, v) = label }
  IN  IF vs # {}
      THEN [ outcome |-> "returned", is_none |-> FALSE, value |-> CHOOSE v \in vs : TRUE ]
      ELSE [ outcome |-> "returned", is_none |-> TRUE, value |-> None ]

\* get_vertex_from_label: the vertex when N == 1, None when N == 0, a
\* ValueError when N > 1.
get_vertex_from_label(G, label) ==
  LET vs == { v \in G.vertices_ : vertex_label(G, v) = label }
      N  == Cardinality(vs)
  IN  IF N = 1
      THEN [ outcome |-> "returned", is_none |-> FALSE, value |-> CHOOSE v \in vs : TRUE ]
      ELSE IF N = 0
      THEN [ outcome |-> "returned", is_none |-> TRUE, value |-> None ]
      ELSE [ outcome |-> "raised", error |-> "ValueError" ]

edge_label(G, u, v) == G.edge_labels_[u][v]

\* A plausible slip: the set of vertices is never seen to hold anything.
vertices_none(G) == {}

vertices(G) == G.vertices_

adjacencies(G, v) == G.adjacency_lists_[v]

\* The pairs edges() lists (its order is that of the set iteration).
edges(G) == { <<u, v>> \in G.vertices_ \X G.vertices_ : v \in adjacencies(G, u) }

\* copy.deepcopy: an independent value.
clone(G) == G

\* transitive_closure, innermost loop "for v in self.vertices()" for fixed w
\* and u, with the test of line 74 on the graph as it is at that iteration.
RECURSIVE ClosureLoopV(_, _, _, _, _)
ClosureLoopV(G, w, u, order, k) ==
  IF k > Len(order) THEN G
  ELSE IF w \in adjacencies(G, u) /\ order[k] \in adjacencies(G, w)
       THEN ClosureLoopV(add_edge(G, u, order[k], ""), w, u, order, k + 1)
       ELSE ClosureLoopV(G, w, u, order, k + 1)

\* The middle loop "for u in self.vertices()".  When w is not a successor of u
\* no v passes the test (the inner loop only adds successors to u, and adds w
\* only if w already is one), so the inner loop is entered only otherwise.
RECURSIVE ClosureLoopU(_, _, _, _)
ClosureLoopU(G, w, order, j) ==
  IF j > Len(order) THEN G
  ELSE IF w \in adjacencies(G, order[j])
       THEN ClosureLoopU(ClosureLoopV(G, w, order[j], order, 1), w, order, j + 1)
       ELSE ClosureLoopU(G, w, order, j + 1)

\* The outer loop "for w in self.vertices()".
RECURSIVE ClosureLoopW(_, _, _)
ClosureLoopW(G, order, i) ==
  IF i > Len(order) THEN G
  ELSE ClosureLoopW(ClosureLoopU(G, order[i], order, 1), order, i + 1)

\* A plausible slip: the loops nested "for u / for v / for w", the
\* intermediate vertex innermost.  For fixed u and v the inner loop can only
\* add the edge (u,v), and does so when some w passes the test.
RECURSIVE InnerWLoopV(_, _, _, _)
InnerWLoopV(G, u, order, k) ==
  IF k > Len(order) THEN G
  ELSE IF \E w \in G.vertices_ :
            w \in adjacencies(G, u) /\ order[k] \in adjacencies(G, w)
       THEN InnerWLoopV(add_edge(G, u, order[k], ""), u, order, k + 1)
       ELSE InnerWLoopV(G, u, order, k + 1)

RECURSIVE InnerWLoopU(_, _, _)
InnerWLoopU(G, order, j) ==
  IF j > Len(order) THEN G
  ELSE InnerWLoopU(InnerWLoopV(G, order[j], order, 1), order, j + 1)

transitive_closure_inner_w(self, order) == InnerWLoopU(clone(self), order, 1)

\* self.vertices() is iterated in the order `order` by all three loops (the
\* set is not modified in between).
transitive_closure(self, order) == ClosureLoopW(clone(self), order, 1)

\* The edges transitive_reduction removes: (u,w) for every closure edge (u,v)
\* and every closure successor w of v.  The closure TC is not modified while
\* it is iterated, and removals commute, so the iteration order is immaterial.
ReductionRemovals(TC) ==
  { <<p[1][1], p[2]>> : p \in { q \in edges(TC) \X TC.vertices_ :
                                  q[2] \in adjacencies(TC, q[1][2]) } }

RECURSIVE RemoveAll(_, _)
RemoveAll(G, pairs) ==
  IF pairs = {} THEN G
  ELSE LET p == CHOOSE q \in pairs : TRUE
       IN  IF p[2] \in adjacencies(G, p[1])
           THEN RemoveAll(remove_edge(G, p[1], p[2]), pairs \ {p})
           ELSE RemoveAll(G, pairs \ {p})   \* discard / pop of an absent edge

\* A plausible slip: G.remove_edge(v,w) in place of G.remove_edge(u,w).
transitive_reduction_wrong_source(self, order) ==
  LET TC == transitive_closure(self, order)
  IN  RemoveAll(clone(self),
                { <<p[1][2], p[2]>> : p \in { q \in edges(TC) \X TC.vertices_ :
                                                q[2] \in adjacencies(TC, q[1][2]) } })

transitive_reduction(self, order) ==
  LET TC == transitive_closure(self, order)
  IN  RemoveAll(clone(self), ReductionRemovals(TC))

\* transpose, first loop: for v in self.vertices(): G.add_vertex(v, label).
RECURSIVE TransposeVertices(_, _, _)
TransposeVertices(G, self, vs) ==
  IF vs = {} THEN G
  ELSE LET v == CHOOSE x \in vs : TRUE
       IN  TransposeVertices(add_vertex(G, v, vertex_label(self, v)), self, vs \ {v})

\* transpose, second loop: for (u,v) in self.edges(): G.add_edge(v, u, label).
RECURSIVE TransposeEdges(_, _, _)
TransposeEdges(G, self, es) ==
  IF es = {} THEN G
  ELSE LET e == CHOOSE x \in es : TRUE
       IN  TransposeEdges(add_edge(G, e[2], e[1], edge_label(self, e[1], e[2])),
                          self, es \ {e})

\* A plausible slip: only the edge loop is run, the vertex loop is left out.
transpose_edges_only(self) == TransposeEdges(NewGraph, self, edges(self))

\* Every vertex and every reversed pair is written once, so the iteration
\* order of the two loops is immaterial.
transpose(self) ==
  TransposeEdges(TransposeVertices(NewGraph, self, self.vertices_), self, edges(self))

(***************************************************************************)
(* class Poset                                                             *)
(***************************************************************************)
\* Poset.__init__: the closure and the reduction of the graph and their
\* transposes; `order` is the iteration order of the graph's vertex set.
Poset(G, order) ==
  LET descendants_ == transitive_closure(G, order)
      children_    == transitive_reduction(G, order)
  IN  [ vertices_    |-> G.vertices_,
        descendants_ |-> descendants_,
        ancestors_   |-> transpose(descendants_),
        children_    |-> children_,
        parents_     |-> transpose(children_) ]

parents(P, v) == adjacencies(P.parents_, v)

children(P, v) == adjacencies(P.children_, v)

ancestors(P, v) == adjacencies(P.ancestors_, v)

descendants(P, v) == adjacencies(P.descendants_, v)

less(P, u, v) == u \in ancestors(P, v)

\* A plausible slip: all(...) in place of any(...).
maximal_all(P, subset) ==
  { u \in subset : ~(\A v \in subset : less(P, u, v)) }

\* The frozenset is a set value: equal elements, equal antichain.
maximal(P, subset) ==
  { u \in subset : ~(\E v \in subset : less(P, u, v)) }

(***************************************************************************)
(* PosetToPatternGraph                                                     *)
(***************************************************************************)
Digits == << "0", "1", "2", "3", "4", "5", "6", "7", "8", "9" >>

\* str(v) of a non-negative integer.
RECURSIVE Str(_)
Str(v) == IF v < 10 THEN Digits[v + 1] ELSE Str(v \div 10) \o Digits[(v % 10) + 1]

\* A plausible slip: v is not taken out of the clique.
parent_clique_keeps_v(P, C, v) == maximal(P, C \cup parents(P, v))

\* Line 138: poset.maximal(clique.difference([v]).union(poset.parents(v))).
parent_clique(P, C, v) == maximal(P, (C \ {v}) \cup parents(P, v))

\* A plausible slip: the edge added from the clique to its parent clique.
pattern_edge_reversed(G, pc, C, v) == add_edge(G, C, pc, Str(v))

\* Line 141: pattern_graph.add_edge(parent_clique, clique, str(v)).
pattern_edge(G, pc, C, v) == add_edge(G, pc, C, Str(v))

(***************************************************************************)
(* IntervalGraph.  An event is <<label, <<start, end>>>>; Python's event    *)
(* index i is position i + 1 of the sequence.                              *)
(***************************************************************************)
\* A plausible slip: a strict comparison.
interval_precedes_strict(ei, ej) == ei[2][2] < ej[2][1]

\* Line 162, first conjunct: events[i][1][1] <= events[j][1][0].
interval_precedes(ei, ej) == ei[2][2] <= ej[2][1]

\* Lines 158-159: for i in range(0, N): G.add_vertex(i, events[i][0]).
RECURSIVE IntervalVertices(_, _, _)
IntervalVertices(G, evs, i) ==
  IF i >= Len(evs) THEN G
  ELSE IntervalVertices(add_vertex(G, i, evs[i + 1][1]), evs, i + 1)

\* Lines 161-163: for j in range(0, N), for fixed i.
RECURSIVE IntervalEdgesJ(_, _, _, _)
IntervalEdgesJ(G, evs, i, j) ==
  IF j >= Len(evs) THEN G
  ELSE IF interval_precedes(evs[i + 1], evs[j + 1]) /\ i # j
       THEN IntervalEdgesJ(add_edge(G, i, j, ""), evs, i, j + 1)
       ELSE IntervalEdgesJ(G, evs, i, j + 1)

\* Line 160: for i in range(0, N).
RECURSIVE IntervalEdgesI(_, _, _)
IntervalEdgesI(G, evs, i) ==
  IF i >= Len(evs) THEN G
  ELSE IntervalEdgesI(IntervalEdgesJ(G, evs, i, 0), evs, i + 1)

IntervalGraph(evs) == IntervalEdgesI(IntervalVertices(NewGraph, evs, 0), evs, 0)

(***************************************************************************)
(* Text.  A Python string is the sequence of its characters; a list of     *)
(* strings is a sequence of such sequences.                                *)
(***************************************************************************)
\* The k-th smallest element of a set of integers.
NthOf(S, k) == CHOOSE p \in S : Cardinality({ q \in S : q <= p }) = k

\* The elements of a sequence, as a set.
Range(s) == { s[i] : i \in 1..Len(s) }

\* s.split(sep) for a one-character separator: the pieces between
\* consecutive separators, empty pieces kept.
PySplit(s, sep) ==
  LET cuts == {0} \cup { i \in 1..Len(s) : s[i] = sep } \cup { Len(s) + 1 }
  IN  [ k \in 1..(Cardinality(cuts) - 1) |->
          SubSeq(s, NthOf(cuts, k) + 1, NthOf(cuts, k + 1) - 1) ]

\* s.replace(c, ' ') applied for every character c of `old`.
PyReplaceBySpace(s, old) == [ i \in 1..Len(s) |-> IF s[i] \in old THEN " " ELSE s[i] ]

\* s.split(): the maximal runs of non-blank characters.
PySplitWords(s) ==
  LET starts == { i \in 1..Len(s) : s[i] # " " /\ (i = 1 \/ s[i - 1] = " ") }
      ends   == { i \in 1..Len(s) : s[i] # " " /\ (i = Len(s) \/ s[i + 1] = " ") }
  IN  [ k \in 1..Cardinality(starts) |-> SubSeq(s, NthOf(starts, k), NthOf(ends, k)) ]

\* sep.join(items)
RECURSIVE PyJoin(_, _)
PyJoin(sep, items) ==
  IF items = <<>> THEN <<>>
  ELSE IF Len(items) = 1 THEN items[1]
  ELSE items[1] \o sep \o PyJoin(sep, Tail(items))

\* The concatenation of a list of strings.
RECURSIVE PyConcat(_)
PyConcat(items) == IF items = <<>> THEN <<>> ELSE items[1] \o PyConcat(Tail(items))

\* list.index(x): the first position of x, counted from 0.
PyIndex(list, x) == (CHOOSE i \in 1..Len(list) : list[i] = x /\ \A j \in 1..(i - 1) : list[j] # x) - 1

\* [f(x) for x in list if x[2] = r]: the sublist of the pairs whose second item is r.
PairsWith(list, r) == SelectSeq(list, LAMBDA x : x[2] = r)

\* Code points of the characters the model's texts are written with.
CharCode ==
  [ c \in { "\n", " ", "(", ")", "*", "+", ":", "A", "B", "C", "D", "E", "X", "Y", "~" } |->
      CASE c = "\n" -> 10 [] c = " " -> 32 [] c = "(" -> 40 [] c = ")" -> 41
        [] c = "*" -> 42 [] c = "+" -> 43 [] c = ":" -> 58 [] c = "A" -> 65
        [] c = "B" -> 66 [] c = "C" -> 67 [] c = "D" -> 68 [] c = "E" -> 69
        [] c = "X" -> 88 [] c = "Y" -> 89 [] c = "~" -> 126 ]

\* a < b for two strings.
StrLess(a, b) ==
  \E k \in 1..(Len(a) + 1) :
    /\ k <= Len(b)
    /\ \A i \in 1..(k - 1) : a[i] = b[i]
    /\ (k = Len(a) + 1 \/ CharCode[a[k]] < CharCode[b[k]])

(***************************************************************************)
(* sort_by_list(X, Y, reverse): sorted(zip(X, *Y)) unzipped again.  X is a  *)
(* list of numbers, Y a list of lists of strings; rows are compared as     *)
(* tuples, the key first and then the columns of Y in turn.                *)
(***************************************************************************)
RowLess(X, Y, i, j) ==
  \/ X[i] < X[j]
  \/ /\ X[i] = X[j]
     /\ \E c \in 1..Len(Y) :
          /\ \A d \in 1..(c - 1) : Y[d][i] = Y[d][j]
          /\ StrLess(Y[c][i], Y[c][j])

RowEqual(X, Y, i, j) == X[i] = X[j] /\ \A c \in 1..Len(Y) : Y[c][i] = Y[c][j]

\* The place (from 1) of row i in the sorted list; sorted() is stable, and
\* with reverse=True equal rows keep their order too.
SortedPlace(X, Y, reverse, i) ==
  Cardinality({ j \in 1..Len(X) : IF reverse THEN RowLess(X, Y, i, j) ELSE RowLess(X, Y, j, i) })
  + Cardinality({ j \in 1..(i - 1) : RowEqual(X, Y, i, j) }) + 1

\* The row that comes to place p.
SortedRow(X, Y, reverse, p) == CHOOSE i \in 1..Len(X) : SortedPlace(X, Y, reverse, i) = p

\* newlists: the sorted X, then every list of Y in the same order.
sort_by_list(X, Y, reverse) ==
  [ k \in 1..(Len(Y) + 1) |->
      [ p \in 1..Len(X) |->
          IF k = 1 THEN X[SortedRow(X, Y, reverse, p)]
          ELSE Y[k - 1][SortedRow(X, Y, reverse, p)] ] ]

(***************************************************************************)
(* fileparsers.getGraphFromNetworkFile(networkstr=...) and                 *)
(* fileparsers.createNetworkFile(..., save2file=False)                     *)
(***************************************************************************)
Raised(error) == [ outcome |-> "raised", error |-> error ]

\* words[-2:] == [':', 'E']
EndsWithEssential(words) ==
  /\ Len(words) >= 2
  /\ words[Len(words) - 1] = << ":" >>
  /\ words[Len(words)] = << "E" >>

\* words = words[:-2] when the line ends with ': E'
StripEssential(words) ==
  IF EndsWithEssential(words) THEN SubSeq(words, 1, Len(words) - 2) ELSE words

\* A plausible slip: only the references of the first line are looked at.
FlatRefsFirstLine(inedges, k) ==
  IF inedges = <<>> THEN <<>>
  ELSE [ i \in 1..Len(inedges[1]) |-> [ target |-> 0, ie |-> inedges[1][i] ] ]

\* The references of all lines in the order the loops of lines 170-171 (or
\* 218-219) visit them: target is the index of the line, ie the token.
RECURSIVE FlatRefs(_, _)
FlatRefs(inedges, k) ==
  IF k > Len(inedges) THEN <<>>
  ELSE [ i \in 1..Len(inedges[k]) |-> [ target |-> k - 1, ie |-> inedges[k][i] ] ]
         \o FlatRefs(inedges, k + 1)

\* Lines 172-177 (220-224): a token that starts with '~' is a repression by
\* the node named after it, any other token an activation by the node it names.
RefIsRepression(ref) == ref.ie[1] = "~"

RefName(ref) == IF RefIsRepression(ref) THEN Tail(ref.ie) ELSE ref.ie

RefReg(ref) == IF RefIsRepression(ref) THEN "r" ELSE "a"

getGraphFromNetworkFile(networkstr) ==
  IF networkstr = <<>> THEN Raised("ValueError")     \* "Empty network string."
  ELSE
    LET eqns  == SelectSeq(PySplit(networkstr, "\n"), LAMBDA l : l # <<>>)
        words == [ k \in 1..Len(eqns) |->
                     PySplitWords(PyReplaceBySpace(eqns[k], { "(", ")", "+" })) ]
        core  == [ k \in 1..Len(eqns) |-> StripEssential(words[k]) ]
    IN  IF \E k \in 1..Len(eqns) : core[k] = <<>>
        THEN Raised("IndexError")                     \* words[0] of an empty list
        ELSE
          LET essential == [ k \in 1..Len(eqns) |-> EndsWithEssential(words[k]) ]
              node_list == [ k \in 1..Len(eqns) |-> core[k][1] ]
              inedges   == [ k \in 1..Len(eqns) |-> SubSeq(core[k], 3, Len(core[k])) ]
              refs      == FlatRefs(inedges, 1)
          IN  IF \E i \in 1..Len(refs) : RefName(refs[i]) \notin Range(node_list)
              THEN Raised("ValueError")               \* node_list.index(...)
              ELSE
                LET from(ind) == SelectSeq(refs, LAMBDA r : PyIndex(node_list, RefName(r)) = ind)
                IN  [ outcome    |-> "returned",
                      node_list  |-> node_list,
                      graph      |-> [ k \in 1..Len(eqns) |->
                                         [ i \in 1..Len(from(k - 1)) |-> from(k - 1)[i].target ] ],
                      regulation |-> [ k \in 1..Len(eqns) |->
                                         [ i \in 1..Len(from(k - 1)) |-> RefReg(from(k - 1)[i]) ] ],
                      essential  |-> essential ]

\* Line 126: the in-edges of `node` as pairs (j, regulation), j ascending; the
\* regulation is looked up at the FIRST place of node in graph[j].
dual(outgraph, regulation, node) ==
  LET js == { j \in 0..(Len(outgraph) - 1) : node \in Range(outgraph[j + 1]) }
  IN  [ k \in 1..Cardinality(js) |->
          << NthOf(js, k), regulation[NthOf(js, k) + 1][PyIndex(outgraph[NthOf(js, k) + 1], node) + 1] >> ]

\* Lines 130-138 (196-201): one line of the network file.
NodeLine(names, name, inedgereg, ess) ==
  LET acts == PairsWith(inedgereg, "a")
      reps == PairsWith(inedgereg, "r")
      act0 == PyJoin(<< " ", "+", " " >>, [ i \in 1..Len(acts) |-> names[acts[i][1] + 1] ])
      act  == IF act0 # <<>> THEN << "(" >> \o act0 \o << ")" >> ELSE act0
      rep  == PyConcat([ i \in 1..Len(reps) |-> << "(", "~" >> \o names[reps[i][1] + 1] \o << ")" >> ])
  IN  name \o << " ", ":", " " >> \o act \o rep
        \o (IF ess THEN << " ", ":", " ", "E" >> ELSE <<>>) \o << "\n" >>

\* zip(node_list, dual, essential) stops with the shortest list.
createNetworkFile(node_list, outgraph, regulation, essential) ==
  PyConcat([ k \in 1..Len(node_list) |->
               NodeLine(node_list, node_list[k], dual(outgraph, regulation, k - 1), essential[k]) ])

(***************************************************************************)
(* intervalgraph.getGraphFromNetworkSpec and                               *)
(* intervalgraph.createEssentialNetworkSpecFromGraph                       *)
(***************************************************************************)
\* Line 216-217: graph.add_vertex(k, label=node)
RECURSIVE SpecVertices(_, _, _)
SpecVertices(G, nodelist, k) ==
  IF k >= Len(nodelist) THEN G
  ELSE SpecVertices(add_vertex(G, k, nodelist[k + 1]), nodelist, k + 1)

\* Lines 218-226: graph.add_edge(innode, outnode, label=reg) for every reference.
RECURSIVE SpecEdges(_, _, _, _)
SpecEdges(G, nodelist, refs, i) ==
  IF i > Len(refs) THEN G
  ELSE SpecEdges(add_edge(G, PyIndex(nodelist, RefName(refs[i])), refs[i].target, RefReg(refs[i])),
                 nodelist, refs, i + 1)

getGraphFromNetworkSpec(network_spec) ==
  LET eqns  == SelectSeq(PySplit(network_spec, "\n"), LAMBDA l : l # <<>>)
      words == [ k \in 1..Len(eqns) |->
                   PySplitWords(PyReplaceBySpace(eqns[k], { "(", ")", "+", "*" })) ]
      core  == [ k \in 1..Len(eqns) |-> StripEssential(words[k]) ]
  IN  IF \E k \in 1..Len(eqns) : core[k] = <<>>
      THEN Raised("IndexError")                       \* words[0] of an empty list
      ELSE
        LET nodelist == [ k \in 1..Len(eqns) |-> core[k][1] ]
            innodes  == [ k \in 1..Len(eqns) |-> SubSeq(core[k], 3, Len(core[k])) ]
            refs     == FlatRefs(innodes, 1)
        IN  IF \E i \in 1..Len(refs) : RefName(refs[i]) \notin Range(nodelist)
            THEN Raised("ValueError")                 \* nodelist.index(ie)
            ELSE [ outcome |-> "returned",
                   value   |-> SpecEdges(SpecVertices(NewGraph, nodelist, 0), nodelist, refs, 1) ]

\* A set of small non-negative integers is iterated in ascending order.
AscendingSeq(S) == [ k \in 1..Cardinality(S) |-> NthOf(S, k) ]

\* Lines 188-191: inedges[a] collects (v, label) for every edge v -> a, in the
\* order "for v in graph.vertices() for a in graph.adjacencies(v)".
InEdgesOf(G, a) ==
  LET vs == AscendingSeq({ v \in G.vertices_ : a \in adjacencies(G, v) })
  IN  [ k \in 1..Len(vs) |-> << vs[k], edge_label(G, vs[k], a) >> ]

createEssentialNetworkSpecFromGraph(G) ==
  IF G.vertices_ = {} THEN Raised("ValueError")       \* unpacking zip(*[]) into two names
  ELSE
    LET vs     == AscendingSeq(G.vertices_)
        sorted == sort_by_list(vs, << [ k \in 1..Len(vs) |-> vertex_label(G, vs[k]) ] >>, FALSE)
        networknodenames == sorted[2]
    IN  IF \E e \in edges(G) : e[2] \notin 0..(Len(networknodenames) - 1)
        THEN Raised("IndexError")                     \* inedges[edge[1]]
        ELSE [ outcome |-> "returned",
               value   |-> PyConcat([ k \in 1..Len(networknodenames) |->
                                        NodeLine(networknodenames, networknodenames[k],
                                                 InEdgesOf(G, k - 1), TRUE) ]) ]

(***************************************************************************)
(* Idle values: what a component's variables hold under the specifications *)
(* of the other components.                                                *)
(***************************************************************************)
NoResult == [ op |-> "none" ]

GraphIdle ==
  /\ graph = NewGraph
  /\ result = NoResult

PatternIdle ==
  /\ pgraph = NewGraph
  /\ poset = [ built |-> FALSE ]
  /\ recursion_stack = <<>>
  /\ pattern_graph = NewGraph
  /\ clique = {}
  /\ todo = {}
  /\ ppc = "idle"
  /\ maximal_call = [ op |-> "none" ]
  /\ popped = <<>>

IntervalIdle ==
  /\ events = <<>>
  /\ ivres = [ op |-> "none" ]

CodecIdle ==
  /\ text = <<>>
  /\ cres = [ op |-> "none" ]

SortIdle ==
  /\ sort_args = [ op |-> "none" ]
  /\ newlists = [ op |-> "none" ]

(***************************************************************************)
(* SpecGraph: a Graph built by add_vertex / add_edge / remove_edge calls,  *)
(* and the closure and reduction queries on it.                            *)
(***************************************************************************)
VertexIds == 1..MaxVertex

\* The model names the vertices in the order they are added: the vertex set is
\* always 1..k (identifiers are opaque to the code; every iteration order of
\* the vertex set is still drawn).
DenseIds(G) == G.vertices_ = 1..Cardinality(G.vertices_)

InitGraph ==
  /\ graph = NewGraph
  /\ result = NoResult
  /\ PatternIdle /\ IntervalIdle /\ CodecIdle /\ SortIdle

AddVertex ==
  \E v \in VertexIds :
    /\ DenseIds(add_vertex(graph, v, ""))
    /\ graph' = add_vertex(graph, v, "")
    /\ result' = NoResult
    /\ UNCHANGED <<patternVars, intervalVars, codecVars, sortVars>>

AddEdge ==
  \E u \in VertexIds, v \in VertexIds :
    /\ Cardinality(edges(graph)) < MaxEdges
    /\ DenseIds(add_edge(graph, u, v, ""))
    /\ graph' = add_edge(graph, u, v, "")
    /\ result' = NoResult
    /\ UNCHANGED <<patternVars, intervalVars, codecVars, sortVars>>

RemoveEdge ==
  \E u \in VertexIds, v \in VertexIds :
    /\ IF remove_edge_raises(graph, u)
       THEN /\ graph' = graph
            /\ result' = [ op |-> "remove_edge", raised |-> "KeyError" ]
       ELSE /\ graph' = remove_edge(graph, u, v)
            /\ result' = [ op |-> "remove_edge", raised |-> None ]
    /\ UNCHANGED <<patternVars, intervalVars, codecVars, sortVars>>

\* G.transitive_closure(): the receiver is only read (the loops write to the
\* clone), the vertex set is iterated in some order.
TransitiveClosure ==
  \E order \in Orders(graph.vertices_) :
    /\ result' = [ op |-> "transitive_closure",
                   value |-> transitive_closure(graph, order) ]
    /\ graph' = graph
    /\ UNCHANGED <<patternVars, intervalVars, codecVars, sortVars>>

TransitiveReduction ==
  \E order \in Orders(graph.vertices_) :
    /\ result' = [ op |-> "transitive_reduction",
                   value |-> transitive_reduction(graph, order) ]
    /\ graph' = graph
    /\ UNCHANGED <<patternVars, intervalVars, codecVars, sortVars>>

NextGraph ==
  \/ AddVertex
  \/ AddEdge
  \/ RemoveEdge
  \/ TransitiveClosure
  \/ TransitiveReduction

SpecGraph == InitGraph /\ [][NextGraph]_vars

(***************************************************************************)
(* Reference notions the claims are stated with (not taken from the code). *)
(***************************************************************************)
\* The vertices reachable from the set S by zero or more edges of G.
RECURSIVE ReachFrom(_, _)
ReachFrom(G, S) ==
  LET T == S \cup UNION { adjacencies(G, x) : x \in S }
  IN  IF T = S THEN S ELSE ReachFrom(G, T)

\* G has a directed path of length >= 1 from u to w.
PathExists(G, u, w) == w \in ReachFrom(G, adjacencies(G, u))

IsAcyclic(G) == \A v \in G.vertices_ : ~PathExists(G, v, v)

SameVerticesAndEdges(G, H) == G.vertices_ = H.vertices_ /\ edges(G) = edges(H)

(***************************************************************************)
(* Claims about Graph.                                                     *)
(***************************************************************************)
\* The two closures the claim compares are taken with the vertex set iterated
\* in ascending order (C5 settles that the order does not matter); the
\* reduction itself was taken under every order.
C4_ReductionKeepsClosure ==
  SameVerticesAndEdges(
    transitive_closure(result.value, Range1(Cardinality(result.value.vertices_))),
    transitive_closure(graph, Range1(Cardinality(graph.vertices_))))

C4_ReductionMinimal ==
  \A e \in edges(result.value) :
    edges(transitive_closure(remove_edge(result.value, e[1], e[2]),
                             Range1(Cardinality(result.value.vertices_))))
      # edges(transitive_closure(graph, Range1(Cardinality(graph.vertices_))))

\* C4: for an acyclic graph G, the closure of G.transitive_reduction() has the
\* vertices and edges of the closure of G, and removing any one edge of the
\* reduction changes the edge set of its closure.
C4_TransitiveReduction ==
  (result.op = "transitive_reduction" /\ IsAcyclic(graph))
    => (C4_ReductionKeepsClosure /\ C4_ReductionMinimal)

\* C4 witness: the reduction of an acyclic graph with a shortcut edge was taken
\* (the reduction has fewer edges than the graph, and at least two).
C4_Witness ==
  /\ result.op = "transitive_reduction"
  /\ IsAcyclic(graph)
  /\ edges(result.value) # edges(graph)
  /\ Cardinality(edges(result.value)) >= 2

C5_ClosureIsReachability ==
  result.op = "transitive_closure" =>
    /\ result.value.vertices_ = graph.vertices_
    /\ \A u \in graph.vertices_, w \in graph.vertices_ :
         (w \in adjacencies(result.value, u)) <=> PathExists(graph, u, w)

\* C5: for every graph (cyclic or not) and every iteration order,
\* transitive_closure() returns a graph on the same vertices with the edge
\* (u,w) exactly when G has a path of length >= 1 from u to w, and the call
\* leaves G as it was.
C5_TransitiveClosure ==
  /\ []C5_ClosureIsReachability
  /\ [][result'.op = "transitive_closure" => graph' = graph]_vars

\* C5 witness: the closure of a cyclic graph was taken and it added edges.
C5_Witness ==
  /\ result.op = "transitive_closure"
  /\ ~IsAcyclic(graph)
  /\ edges(result.value) # edges(graph)

(***************************************************************************)
(* SpecPattern: Poset(graph), Poset.maximal and PosetToPatternGraph on     *)
(* every acyclic digraph with the vertices 1..n, n <= MaxPosetSize (the    *)
(* empty graph included).                                                  *)
(***************************************************************************)
RECURSIVE AddVertices(_, _)
AddVertices(G, vs) ==
  IF vs = {} THEN G
  ELSE LET v == CHOOSE x \in vs : TRUE
       IN  AddVertices(add_vertex(G, v, ""), vs \ {v})

RECURSIVE AddEdges(_, _)
AddEdges(G, es) ==
  IF es = {} THEN G
  ELSE LET e == CHOOSE x \in es : TRUE
       IN  AddEdges(add_edge(G, e[1], e[2], ""), es \ {e})

\* The graph with the vertices V and the edges E, built by the Graph methods.
GraphOf(V, E) == AddEdges(AddVertices(NewGraph, V), E)

InitPattern ==
  /\ \E n \in 0..MaxPosetSize :
       \E E \in SUBSET ((1..n) \X (1..n)) :
         /\ IsAcyclic(GraphOf(1..n, E))
         /\ pgraph = GraphOf(1..n, E)
  /\ poset = [ built |-> FALSE ]
  /\ recursion_stack = <<>>
  /\ pattern_graph = NewGraph
  /\ clique = {}
  /\ todo = {}
  /\ ppc = "graph"
  /\ maximal_call = [ op |-> "none" ]
  /\ popped = <<>>
  /\ GraphIdle /\ IntervalIdle /\ CodecIdle /\ SortIdle

\* P = Poset(graph)
PosetInit ==
  /\ ppc = "graph"
  /\ \E order \in Orders(pgraph.vertices_) : poset' = Poset(pgraph, order)
  /\ ppc' = "poset"
  /\ UNCHANGED <<pgraph, recursion_stack, pattern_graph, clique, todo, maximal_call, popped>>
  /\ UNCHANGED <<graphVars, intervalVars, codecVars, sortVars>>

\* P.maximal(subset) for a subset of P's elements.
MaximalCall ==
  /\ ppc = "poset"
  /\ \E subset \in SUBSET poset.vertices_ :
       maximal_call' = [ op |-> "maximal", subset |-> subset,
                         value |-> maximal(poset, subset) ]
  /\ UNCHANGED <<pgraph, poset, recursion_stack, pattern_graph, clique, todo, ppc, popped>>
  /\ UNCHANGED <<graphVars, intervalVars, codecVars, sortVars>>

\* PosetToPatternGraph(P), lines 133-134: the empty graph and the seeded stack.
PatternStart ==
  /\ ppc = "poset"
  /\ pattern_graph' = NewGraph
  /\ recursion_stack' = << maximal(poset, poset.vertices_) >>
  /\ maximal_call' = [ op |-> "none" ]
  /\ popped' = <<>>
  /\ ppc' = "while"
  /\ UNCHANGED <<pgraph, poset, clique, todo>>
  /\ UNCHANGED <<graphVars, intervalVars, codecVars, sortVars>>

\* Lines 135-136: while recursion_stack: clique = recursion_stack.pop()
PatternPop ==
  /\ ppc = "while"
  /\ recursion_stack # <<>>
  /\ clique' = recursion_stack[Len(recursion_stack)]
  /\ recursion_stack' = SubSeq(recursion_stack, 1, Len(recursion_stack) - 1)
  /\ todo' = recursion_stack[Len(recursion_stack)]
  /\ popped' = Append(popped, recursion_stack[Len(recursion_stack)])
  /\ ppc' = "for"
  /\ UNCHANGED <<pgraph, poset, pattern_graph, maximal_call>>
  /\ UNCHANGED <<graphVars, intervalVars, codecVars, sortVars>>

\* Lines 137-141: one round of "for v in clique" (the frozenset is iterated in
\* some order).
PatternVisit ==
  /\ ppc = "for"
  /\ \E v \in todo :
       LET pc == parent_clique(poset, clique, v)
       IN  /\ recursion_stack' = IF pc \notin vertices(pattern_graph)
                                 THEN Append(recursion_stack, pc)
                                 ELSE recursion_stack
           /\ pattern_graph' = pattern_edge(pattern_graph, pc, clique, v)
           /\ todo' = todo \ {v}
  /\ UNCHANGED <<pgraph, poset, clique, ppc, maximal_call, popped>>
  /\ UNCHANGED <<graphVars, intervalVars, codecVars, sortVars>>

\* The for loop has run out: back to the while test.
PatternEndFor ==
  /\ ppc = "for"
  /\ todo = {}
  /\ ppc' = "while"
  /\ UNCHANGED <<pgraph, poset, recursion_stack, pattern_graph, clique, todo, maximal_call, popped>>
  /\ UNCHANGED <<graphVars, intervalVars, codecVars, sortVars>>

\* Line 142: the stack is empty, return pattern_graph.
PatternReturn ==
  /\ ppc = "while"
  /\ recursion_stack = <<>>
  /\ ppc' = "done"
  /\ UNCHANGED <<pgraph, poset, recursion_stack, pattern_graph, clique, todo, maximal_call, popped>>
  /\ UNCHANGED <<graphVars, intervalVars, codecVars, sortVars>>

NextPattern ==
  \/ PosetInit
  \/ MaximalCall
  \/ PatternStart
  \/ PatternPop
  \/ PatternVisit
  \/ PatternEndFor
  \/ PatternReturn

SpecPattern == InitPattern /\ [][NextPattern]_vars

(***************************************************************************)
(* Claims about Poset and PosetToPatternGraph.                             *)
(***************************************************************************)
\* Vertices without an incoming edge, vertices without an outgoing edge.
Sources(G) == { x \in G.vertices_ : \A y \in G.vertices_ : x \notin adjacencies(G, y) }

Sinks(G) == { x \in G.vertices_ : adjacencies(G, x) = {} }

\* No two elements of C are comparable in the order of the input graph.
IsAntichain(C) ==
  /\ C \subseteq pgraph.vertices_
  /\ \A a \in C, b \in C : ~PathExists(pgraph, a, b)

\* The antichains reachable from Cs by zero or more steps
\* C -> maximal((C minus {v}) union parents(v)), v in C.
RECURSIVE ReachableAntichains(_)
ReachableAntichains(Cs) ==
  LET T == Cs \cup { maximal(poset, (C[1] \ {C[2]}) \cup parents(poset, C[2])) :
                       C \in { q \in Cs \X poset.vertices_ : q[2] \in q[1] } }
  IN  IF T = Cs THEN Cs ELSE ReachableAntichains(T)

TopAntichain == maximal(poset, poset.vertices_)

\* C1 as claimed: the returned graph of a non-empty poset has the top antichain
\* as its only source and the empty antichain as its only sink.
C1_Original ==
  (ppc = "done" /\ pgraph.vertices_ # {}) =>
    /\ Sources(pattern_graph) = { TopAntichain }
    /\ Sinks(pattern_graph) = { {} }

\* C1 as amended: the returned graph of a non-empty poset has the empty
\* antichain as its only source and the top antichain as its only sink (every
\* edge runs from the parent clique to the clique it was derived from).
C1_SourceAndSink ==
  (ppc = "done" /\ pgraph.vertices_ # {}) =>
    /\ Sources(pattern_graph) = { {} }
    /\ Sinks(pattern_graph) = { TopAntichain }

\* C1 witness: the graph of a poset with two maximal elements was returned.
C1_Witness ==
  /\ ppc = "done"
  /\ Cardinality(TopAntichain) >= 2
  /\ Cardinality(pattern_graph.vertices_) >= 4

\* C2: the vertices of the returned graph are exactly the antichains reachable
\* from the seed maximal(P.vertices()), the seed included, and each is an
\* antichain of P -- for every acyclic poset, the empty one included.
C2_VerticesAreReachableAntichains ==
  ppc = "done" =>
    /\ pattern_graph.vertices_ = ReachableAntichains({ TopAntichain })
    /\ \A C \in pattern_graph.vertices_ : IsAntichain(C)

\* C3: the returned graph has no directed cycle (and no self-loop).
C3_PatternGraphAcyclic ==
  ppc = "done" => IsAcyclic(pattern_graph)

\* C3 witness: a returned graph in which some antichain has two parent cliques.
C3_Witness ==
  /\ ppc = "done"
  /\ \E C \in pattern_graph.vertices_ :
       Cardinality({ D \in pattern_graph.vertices_ : C \in adjacencies(pattern_graph, D) }) >= 2

\* C6: maximal(S), S a subset of P's elements, is a subset of S, no element of
\* it is an ancestor of another, and it is non-empty when S is.
C6_MaximalIsAntichain ==
  maximal_call.op = "maximal" =>
    /\ maximal_call.value \subseteq maximal_call.subset
    /\ \A a \in maximal_call.value, b \in maximal_call.value : ~PathExists(pgraph, a, b)
    /\ (maximal_call.subset # {} => maximal_call.value # {})

\* C6 witness: maximal was called on a set with comparable elements and
\* returned two or more of its elements.
C6_Witness ==
  /\ maximal_call.op = "maximal"
  /\ maximal_call.value # maximal_call.subset
  /\ Cardinality(maximal_call.value) >= 2

\* No antichain is popped twice, waits twice on the stack, or waits on the
\* stack after it was popped.
C16_NoSecondPush ==
  LET all == popped \o recursion_stack
  IN  \A i \in 1..Len(all), j \in 1..Len(all) : i # j => all[i] # all[j]

\* On return, the antichains popped are the reachable ones, each once.
C16_EveryAntichainPopped ==
  ppc = "done" =>
    /\ Range(popped) = ReachableAntichains({ TopAntichain })
    /\ Len(popped) = Cardinality(ReachableAntichains({ TopAntichain }))

\* What is left to do: the sets of elements not popped yet weigh more than
\* any for loop, a for loop more than the while test, the while test more than
\* the return.
Variant ==
  Cardinality((SUBSET poset.vertices_) \ Range(popped))
      * (Cardinality(poset.vertices_) + 3)
    + (CASE ppc = "for"   -> Cardinality(todo) + 2
         [] ppc = "while" -> 1
         [] OTHER         -> 0)

\* Inside the loop the program always has a next step.
C16_CanStep == ppc \in { "while", "for" } => ENABLED NextPattern

\* A step taken inside the loop lowers the variant, which stays a natural number.
C16_VariantFalls ==
  ppc \in { "while", "for" } => (Variant' < Variant /\ Variant' >= 0)

\* C16: the work-stack loop of PosetToPatternGraph terminates (every step of
\* the loop lowers a natural number, and the loop stops only by returning),
\* and every distinct antichain is popped exactly once: none is pushed a second
\* time.
C16_LoopTerminates ==
  /\ []C16_NoSecondPush
  /\ []C16_EveryAntichainPopped
  /\ []C16_CanStep
  /\ [][C16_VariantFalls]_vars

\* C16 witness: the loop has ended after an antichain was reached from two
\* different popped antichains.
C16_Witness ==
  /\ ppc = "done"
  /\ Len(popped) >= 4
  /\ \E C \in pattern_graph.vertices_ :
       Cardinality({ D \in pattern_graph.vertices_ : D \in adjacencies(pattern_graph, C) }) >= 2

(***************************************************************************)
(* SpecInterval: IntervalGraph on every event list of at most MaxEvents    *)
(* events with end points in 0..MaxTime (start <= end or not), labelled    *)
(* either all alike or all differently, and on the list A=[0,1], B=[1,2],  *)
(* C=[3,4].                                                                *)
(***************************************************************************)
LabelPool == << "A", "B", "C", "D", "E", "F" >>

ScenarioABC == << <<"A", <<0, 1>>>>, <<"B", <<1, 2>>>>, <<"C", <<3, 4>>>> >>

InitInterval ==
  /\ \/ \E n \in 0..MaxEvents :
          \E iv \in [1..n -> (0..MaxTime) \X (0..MaxTime)], shared \in BOOLEAN :
            events = [ i \in 1..n |-> << IF shared THEN "A" ELSE LabelPool[i], iv[i] >> ]
     \/ events = ScenarioABC
  /\ ivres = [ op |-> "none" ]
  /\ GraphIdle /\ PatternIdle /\ CodecIdle /\ SortIdle

\* G = IntervalGraph(events): the function has no raise and no failing lookup.
CallIntervalGraph ==
  /\ ivres.op = "none"
  /\ ivres' = [ op |-> "IntervalGraph", outcome |-> "returned",
                value |-> IntervalGraph(events) ]
  /\ UNCHANGED events
  /\ UNCHANGED <<graphVars, patternVars, codecVars, sortVars>>

NextInterval == CallIntervalGraph

SpecInterval == InitInterval /\ [][NextInterval]_vars

(***************************************************************************)
(* Claims about IntervalGraph.                                             *)
(***************************************************************************)
\* C7: one vertex per event (identifier = index, label = the event's label),
\* and the edge i -> j exactly when i # j and end(i) <= start(j); for A=[0,1],
\* B=[1,2], C=[3,4] the edges are A->B, A->C and B->C.
C7_IntervalGraphEdges ==
  ivres.op = "IntervalGraph" =>
    /\ ivres.outcome = "returned"
    /\ ivres.value.vertices_ = 0..(Len(events) - 1)
    /\ \A i \in 0..(Len(events) - 1) : vertex_label(ivres.value, i) = events[i + 1][1]
    /\ \A i \in 0..(Len(events) - 1), j \in 0..(Len(events) - 1) :
         (j \in adjacencies(ivres.value, i))
           <=> (i # j /\ events[i + 1][2][2] <= events[j + 1][2][1])
    /\ (events = ScenarioABC => edges(ivres.value) = { <<0, 1>>, <<0, 2>>, <<1, 2>> })

\* C7 witness: IntervalGraph returned for A=[0,1], B=[1,2], C=[3,4].
C7_Witness ==
  /\ ivres.op = "IntervalGraph"
  /\ events = ScenarioABC
  /\ Cardinality(edges(ivres.value)) = 3

\* C17: for events whose intervals all satisfy start <= end (zero-length and
\* repeated intervals included) the graph IntervalGraph builds has no directed
\* cycle: no pair of opposite edges and no longer cycle.
C17_IntervalGraphAcyclic ==
  (/\ ivres.op = "IntervalGraph"
   /\ \A i \in 1..Len(events) : events[i][2][1] <= events[i][2][2])
    => /\ IsAcyclic(ivres.value)
       /\ \A i \in ivres.value.vertices_, j \in ivres.value.vertices_ :
            ~(i # j /\ j \in adjacencies(ivres.value, i) /\ i \in adjacencies(ivres.value, j))

(***************************************************************************)
(* SpecCodec: a network specification text is decoded, encoded and decoded *)
(* again with the file codec (fileparsers), or decoded and encoded with    *)
(* the graph codec (intervalgraph).                                        *)
(***************************************************************************)
MaxNodes == 2
MaxRefs == 2

NamePool == << << "X" >>, << "A" >>, << "B" >>, << "C" >>, << "D" >> >>

\* '(NAME)' or '(~NAME)'
RenderRef(ref) ==
  << "(" >> \o (IF ref[2] THEN << "~" >> ELSE <<>>) \o NamePool[ref[3]] \o << ")" >>

\* 'NAME : (..)(~..) : E' followed by a line feed
RenderLine(k, refs, ess) ==
  LET mine == SelectSeq(refs, LAMBDA r : r[1] = k)
  IN  NamePool[k] \o << " ", ":", " " >>
        \o PyConcat([ i \in 1..Len(mine) |-> RenderRef(mine[i]) ])
        \o (IF ess = k THEN << " ", ":", " ", "E" >> ELSE <<>>) \o << "\n" >>

RenderText(n, refs, ess) == PyConcat([ k \in 1..n |-> RenderLine(k, refs, ess) ])

\* The specification text of the scenario of spec section 8.
ScenarioC9 ==
  PyConcat(<< << "X", " ", ":", " ", "(", "A", " ", "+", " ", "B", ")", "(", "~", "C", ")", " ", ":", " ", "E", "\n" >>,
              << "A", " ", ":", " ", ":", " ", "\n" >>,
              << "B", " ", ":", " ", ":", "\n" >>,
              << "C", " ", ":", " ", ":", "\n" >> >>)

\* A line that represses a node no line declares.
ScenarioUnknown == << "X", " ", ":", " ", "(", "~", "Y", ")", "\n" >>

\* The input: n declared nodes, up to MaxRefs references (line, repression?,
\* name) listed line by line, where the name after the n declared ones is
\* declared nowhere, and at most one essential line; or a scenario text.
ChooseText ==
  \/ \E n \in 0..MaxNodes, m \in 0..MaxRefs :
       \E refs \in [1..m -> (1..n) \X BOOLEAN \X (1..(n + 1))], ess \in 0..n :
         /\ \A i \in 1..(m - 1) : refs[i][1] <= refs[i + 1][1]
         /\ text = RenderText(n, refs, ess)
  \/ text = ScenarioC9
  \/ text = ScenarioUnknown

InitCodec ==
  /\ ChooseText
  /\ cres = [ op |-> "none" ]
  /\ GraphIdle /\ PatternIdle /\ IntervalIdle /\ SortIdle

\* first = getGraphFromNetworkFile(networkstr=text)
DecodeFile ==
  /\ cres.op = "none"
  /\ cres' = [ op |-> "decode_file", first |-> getGraphFromNetworkFile(text) ]
  /\ UNCHANGED text
  /\ UNCHANGED <<graphVars, patternVars, intervalVars, sortVars>>

\* encoded = createNetworkFile(*first, save2file=False)
EncodeFile ==
  /\ cres.op = "decode_file"
  /\ cres.first.outcome = "returned"
  /\ cres' = [ op |-> "encode_file", first |-> cres.first,
               encoded |-> createNetworkFile(cres.first.node_list, cres.first.graph,
                                             cres.first.regulation, cres.first.essential) ]
  /\ UNCHANGED text
  /\ UNCHANGED <<graphVars, patternVars, intervalVars, sortVars>>

\* second = getGraphFromNetworkFile(networkstr=encoded)
DecodeFileAgain ==
  /\ cres.op = "encode_file"
  /\ cres' = [ op |-> "redecode_file", first |-> cres.first, encoded |-> cres.encoded,
               second |-> getGraphFromNetworkFile(cres.encoded) ]
  /\ UNCHANGED text
  /\ UNCHANGED <<graphVars, patternVars, intervalVars, sortVars>>

\* decoded = getGraphFromNetworkSpec(text)
DecodeSpec ==
  /\ cres.op = "none"
  /\ cres' = [ op |-> "decode_spec", decoded |-> getGraphFromNetworkSpec(text) ]
  /\ UNCHANGED text
  /\ UNCHANGED <<graphVars, patternVars, intervalVars, sortVars>>

\* encoded = createEssentialNetworkSpecFromGraph(decoded)
EncodeEssential ==
  /\ cres.op = "decode_spec"
  /\ cres.decoded.outcome = "returned"
  /\ cres' = [ op |-> "encode_spec", decoded |-> cres.decoded,
               encoded |-> createEssentialNetworkSpecFromGraph(cres.decoded.value) ]
  /\ UNCHANGED text
  /\ UNCHANGED <<graphVars, patternVars, intervalVars, sortVars>>

NextCodec ==
  \/ DecodeFile
  \/ EncodeFile
  \/ DecodeFileAgain
  \/ DecodeSpec
  \/ EncodeEssential

SpecCodec == InitCodec /\ [][NextCodec]_vars

(***************************************************************************)
(* SpecInputs: the entry points side by side, either an event list handed  *)
(* to IntervalGraph or a text handed to the codecs.                        *)
(***************************************************************************)
InitInputs == InitInterval \/ InitCodec

NextInputs ==
  \/ CallIntervalGraph
  \/ DecodeFile
  \/ EncodeFile
  \/ DecodeFileAgain
  \/ DecodeSpec
  \/ EncodeEssential

SpecInputs == InitInputs /\ [][NextInputs]_vars

(***************************************************************************)
(* Claims about the codecs.                                                *)
(***************************************************************************)
\* C8: for every well-formed text (every referenced name declared, at least
\* one node line), decode / encode / decode with the file codec yields the
\* same node names, out-edge lists, regulation labels and essential flags as
\* the first decoding.
C8_FileRoundTrip ==
  (/\ cres.op = "redecode_file"
   /\ Len(cres.first.node_list) >= 1)
    => cres.second = cres.first

\* C9: getGraphFromNetworkSpec succeeds on the scenario text and yields
\* vertices X, A, B, C with ids 0..3, activations A->X and B->X, the repression
\* C->X and no other edge; createEssentialNetworkSpecFromGraph then writes
\* 'X : (A + B)(~C) : E' for X.
C9_ScenarioDecodes ==
  (text = ScenarioC9 /\ cres.op \in { "decode_spec", "encode_spec" }) =>
    /\ cres.decoded.outcome = "returned"
    /\ cres.decoded.value.vertices_ = 0..3
    /\ \A k \in 0..3 :
         vertex_label(cres.decoded.value, k) = << << "X" >>, << "A" >>, << "B" >>, << "C" >> >>[k + 1]
    /\ edges(cres.decoded.value) = { <<1, 0>>, <<2, 0>>, <<3, 0>> }
    /\ edge_label(cres.decoded.value, 1, 0) = "a"
    /\ edge_label(cres.decoded.value, 2, 0) = "a"
    /\ edge_label(cres.decoded.value, 3, 0) = "r"
    /\ (cres.op = "encode_spec" =>
          /\ cres.encoded.outcome = "returned"
          /\ PySplit(cres.encoded.value, "\n")[1] = PySplit(ScenarioC9, "\n")[1])

\* C10: IntervalGraph on an empty event list and getGraphFromNetworkSpec on an
\* empty text each end in an error, never in a returned graph.
C10_EmptyInputIsError ==
  /\ (ivres.op = "IntervalGraph" /\ events = <<>>) => ivres.outcome = "raised"
  /\ (cres.op = "decode_spec" /\ text = <<>>) => cres.decoded.outcome = "raised"

\* The words of the non-empty lines of a specification text, the parentheses
\* and the signs + and * taken as blanks and a closing ': E' dropped.
LineWords(t) ==
  LET lines == SelectSeq(PySplit(t, "\n"), LAMBDA l : l # <<>>)
  IN  [ k \in 1..Len(lines) |->
          StripEssential(PySplitWords(PyReplaceBySpace(lines[k], { "(", ")", "+", "*" }))) ]

\* The names the lines declare: the first word of every line.
DeclaredNames(t) ==
  { LineWords(t)[k][1] : k \in { j \in 1..Len(LineWords(t)) : LineWords(t)[j] # <<>> } }

\* The names the lines reference: the words after 'NAME :', the '~' taken off.
ReferencedNames(t) ==
  UNION { { IF LineWords(t)[k][i][1] = "~" THEN Tail(LineWords(t)[k][i]) ELSE LineWords(t)[k][i] :
              i \in 3..Len(LineWords(t)[k]) } : k \in 1..Len(LineWords(t)) }

MaxLabelled == 2
MaxLabelledEdges == 2

LabelledIds == 1..MaxLabelled

\* '' is the default label of add_vertex and of the vertices add_edge adds.
VertexLabels == { "", "g" }

EdgeLabels == { "a", "r" }

InitLabelled ==
  /\ graph = NewGraph
  /\ result = NoResult
  /\ PatternIdle /\ IntervalIdle /\ CodecIdle /\ SortIdle

\* G.add_vertex(v, label)
AddLabelledVertex ==
  \E v \in LabelledIds, label \in VertexLabels :
    /\ DenseIds(add_vertex(graph, v, label))
    /\ graph' = add_vertex(graph, v, label)
    /\ result' = NoResult
    /\ UNCHANGED <<patternVars, intervalVars, codecVars, sortVars>>

\* G.add_edge(u, v, label)
AddLabelledEdge ==
  \E u \in LabelledIds, v \in LabelledIds, label \in EdgeLabels :
    /\ DenseIds(add_edge(graph, u, v, label))
    /\ Cardinality(edges(add_edge(graph, u, v, label))) <= MaxLabelledEdges
    /\ graph' = add_edge(graph, u, v, label)
    /\ result' = NoResult
    /\ UNCHANGED <<patternVars, intervalVars, codecVars, sortVars>>

\* G.remove_edge(u, v); `before` keeps the graph the call was made on.
RemoveLabelledEdge ==
  \E u \in LabelledIds, v \in LabelledIds :
    /\ IF remove_edge_raises(graph, u)
       THEN /\ graph' = graph
            /\ result' = [ op |-> "remove_edge", u |-> u, v |-> v, before |-> graph,
                           raised |-> "KeyError" ]
       ELSE /\ graph' = remove_edge(graph, u, v)
            /\ result' = [ op |-> "remove_edge", u |-> u, v |-> v, before |-> graph,
                           raised |-> None ]
    /\ UNCHANGED <<patternVars, intervalVars, codecVars, sortVars>>

\* G.transpose() and G.transpose().transpose(); G itself is only read.
Transpose ==
  /\ result' = [ op |-> "transpose", value |-> transpose(graph),
                 twice |-> transpose(transpose(graph)) ]
  /\ graph' = graph
  /\ UNCHANGED <<patternVars, intervalVars, codecVars, sortVars>>

\* G.get_vertex_from_label(label); G itself is only read.
GetVertexFromLabel ==
  \E label \in VertexLabels \cup { "h" } :
    /\ result' = [ op |-> "get_vertex_from_label", label |-> label,
                   ret |-> get_vertex_from_label(graph, label) ]
    /\ graph' = graph
    /\ UNCHANGED <<patternVars, intervalVars, codecVars, sortVars>>

NextLabelled ==
  \/ AddLabelledVertex
  \/ AddLabelledEdge
  \/ RemoveLabelledEdge
  \/ Transpose
  \/ GetVertexFromLabel

SpecLabelled == InitLabelled /\ [][NextLabelled]_vars

(***************************************************************************)
(* Claims about the Graph operations.                                      *)
(***************************************************************************)
\* C11: remove_edge(u, v) on a graph without the edge u -> v, u or v not
\* being a vertex included, raises nothing and leaves vertex set, adjacency,
\* vertex labels and edge labels as they were; when the edge exists, only that
\* edge and its label go.
C11_RemoveEdgeNoOp ==
  result.op = "remove_edge" =>
    LET G   == result.before
        u   == result.u
        v   == result.v
        has == u \in G.vertices_ /\ v \in adjacencies(G, u)
    IN  /\ result.raised = None
        /\ (~has) => graph = G
        /\ has =>
             /\ graph.vertices_ = G.vertices_
             /\ graph.vertex_labels_ = G.vertex_labels_
             /\ edges(graph) = edges(G) \ { <<u, v>> }
             /\ \A e \in edges(graph) : edge_label(graph, e[1], e[2]) = edge_label(G, e[1], e[2])
             /\ v \notin DOMAIN graph.edge_labels_[u]

\* C13: G.transpose().transpose() has the vertex set, vertex labels, adjacency
\* and edge labels of G, and G.transpose() has the edge v -> u with label L
\* exactly when G has the edge u -> v with label L.
C13_TransposeInvolution ==
  result.op = "transpose" =>
    /\ result.twice.vertices_ = graph.vertices_
    /\ result.twice.vertex_labels_ = graph.vertex_labels_
    /\ result.twice.adjacency_lists_ = graph.adjacency_lists_
    /\ result.twice.edge_labels_ = graph.edge_labels_
    /\ result.value.vertices_ = graph.vertices_
    /\ \A u \in LabelledIds, v \in LabelledIds :
         /\ (<<v, u>> \in edges(result.value)) <=> (<<u, v>> \in edges(graph))
         /\ (<<u, v>> \in edges(graph)) =>
              edge_label(result.value, v, u) = edge_label(graph, u, v)

\* C13 witness: the transpose of a graph with a one-way edge labelled 'r' from a
\* vertex labelled 'g'.
C13_Witness ==
  /\ result.op = "transpose"
  /\ <<1, 2>> \in edges(graph)
  /\ <<2, 1>> \notin edges(graph)
  /\ edge_label(graph, 1, 2) = "r"
  /\ vertex_label(graph, 1) = "g"
  /\ <<2, 1>> \in edges(result.value)

\* The vertices of the graph that carry the label.
Carriers(label) == { v \in graph.vertices_ : graph.vertex_labels_[v] = label }

\* C14: get_vertex_from_label(label) raises when two or more vertices carry
\* the label, returns None when none does and returns the vertex when exactly
\* one does.
C14_LookupOutcome ==
  result.op = "get_vertex_from_label" =>
    /\ Cardinality(Carriers(result.label)) >= 2 => result.ret.outcome = "raised"
    /\ Cardinality(Carriers(result.label)) = 0 =>
         (result.ret.outcome = "returned" /\ result.ret.is_none)
    /\ Cardinality(Carriers(result.label)) = 1 =>
         /\ result.ret.outcome = "returned"
         /\ ~result.ret.is_none
         /\ Carriers(result.label) = { result.ret.value }

\* C14: the three outcomes above in every graph state, and the graph is the
\* same after the call as before it.
C14_GetVertexFromLabel ==
  /\ []C14_LookupOutcome
  /\ [][result'.op = "get_vertex_from_label" => graph' = graph]_vars

\* C14 witness: a lookup of a label that two vertices carry.
C14_Witness ==
  /\ result.op = "get_vertex_from_label"
  /\ Cardinality(Carriers(result.label)) = 2
  /\ result.ret.outcome = "raised"

\* C18: after any sequence of add_vertex, add_edge and remove_edge calls, the
\* keys of the adjacency, vertex-label and edge-label structures and all
\* successors are vertices, every vertex has its three entries, and v is a
\* successor of u exactly when the edge-label map of u has an entry for v.
C18_RepresentationInvariant ==
  /\ DOMAIN graph.adjacency_lists_ = graph.vertices_
  /\ DOMAIN graph.vertex_labels_ = graph.vertices_
  /\ DOMAIN graph.edge_labels_ = graph.vertices_
  /\ \A u \in graph.vertices_ :
       /\ graph.adjacency_lists_[u] \subseteq graph.vertices_
       /\ DOMAIN graph.edge_labels_[u] = graph.adjacency_lists_[u]

\* C18 witness: remove_edge has taken an edge out of a graph that add_vertex
\* and add_edge built, and another edge is left.
C18_Witness ==
  /\ result.op = "remove_edge"
  /\ result.raised = None
  /\ edges(graph) # {}
  /\ edges(graph) # edges(result.before)
  /\ \E v \in graph.vertices_ : vertex_label(graph, v) = "g"

(***************************************************************************)
(* SpecSort: one call of sort_by_list(X, Y, reverse) on lists of up to      *)
(* MaxSortLen entries: X holds numbers, Y up to two lists of strings.      *)
(***************************************************************************)
MaxSortLen == 3
MaxKey == 1

SortItems == { << "A" >>, << "B" >> }

InitSort ==
  /\ \E n \in 0..MaxSortLen, k \in 0..2 :
       \E X \in [1..n -> 0..MaxKey], Y \in [1..k -> [1..n -> SortItems]], reverse \in BOOLEAN :
         sort_args = [ op |-> "sort_by_list", X |-> X, Y |-> Y, reverse |-> reverse ]
  /\ newlists = [ op |-> "none" ]
  /\ GraphIdle /\ PatternIdle /\ IntervalIdle /\ CodecIdle

\* newlists = sort_by_list(X, Y, reverse)
CallSortByList ==
  /\ newlists.op = "none"
  /\ newlists' = [ op |-> "sort_by_list",
                   value |-> sort_by_list(sort_args.X, sort_args.Y, sort_args.reverse) ]
  /\ UNCHANGED sort_args
  /\ UNCHANGED <<graphVars, patternVars, intervalVars, codecVars>>

NextSort == CallSortByList

SpecSort == InitSort /\ [][NextSort]_vars

(***************************************************************************)
(* Claims about sort_by_list.                                              *)
(***************************************************************************)
\* The place a stable sort by key gives entry i: after the entries with a
\* smaller key (a larger one when reverse) and after the earlier entries with
\* the same key.
StablePlace(X, reverse, i) ==
  Cardinality({ j \in 1..Len(X) : IF reverse THEN X[j] > X[i] ELSE X[j] < X[i] })
  + Cardinality({ j \in 1..(i - 1) : X[j] = X[i] }) + 1

\* C12: sort_by_list is a stable parallel sort by key: the first list returned
\* is X ascending (descending when reverse), every list of Y is permuted the
\* same way, and entries with equal keys keep their relative order whatever Y
\* holds.
C12_StableSortByKey ==
  newlists.op = "sort_by_list" =>
    LET X   == sort_args.X
        Y   == sort_args.Y
        out == newlists.value
    IN  /\ Len(out) = Len(Y) + 1
        /\ \A k \in 1..Len(out) : Len(out[k]) = Len(X)
        /\ \A i \in 1..Len(X) :
             /\ out[1][StablePlace(X, sort_args.reverse, i)] = X[i]
             /\ \A k \in 1..Len(Y) : out[k + 1][StablePlace(X, sort_args.reverse, i)] = Y[k][i]

====
